---- MODULE Spec2Model ----
(***************************************************************************)
(* A model of the istore LSH index (package lsh: Indexer, Storage, Page,   *)
(* pageIter) and of the bitvector package it is built on.                  *)
(*                                                                         *)
(* Positions of pages are 0-based as in the Go code; the TLA+ sequence     *)
(* `pages` holds page number n at index n + 1.  The backing array of the   *)
(* Go slice s.pages is modelled by its capacity `pagescap`: an append that *)
(* finds len = cap moves the pages to a new array, and a *Page taken       *)
(* before the append then points into the abandoned array.                 *)
(***************************************************************************)
EXTENDS Integers, Sequences, FiniteSets, TLC

VARIABLES
    lookup,     \* Indexer.lookup: bucket key -> head page number
    pages,      \* Storage.pages: sequence of Page records
    pagescap,   \* cap(Storage.pages)
    added,      \* history: the (id, key) of every Indexer.Add call, in order
    op,         \* the last operation called, with its arguments
    ret,        \* what the last operation returned
    bvx,        \* a BitVector
    bvy,        \* a second BitVector of the same size
    panicked,   \* TRUE once an operation has panicked (the run is over)
    text,       \* the string handed to Scan
    idseq,      \* Server.idseq
    idseqLock,  \* Server.idseqLock: the request holding it, or 0
    db,         \* Server.Db: the sequence hint, the ItemId keys, the user paths
    req,        \* the requests being served: where each one is, and its locals
    hist        \* history: the ids NextItemId returned in this run, the ids of
                \* the items created, the numbers of POSTs and of restarts

vars == <<lookup, pages, pagescap, added, op, ret, bvx, bvy, panicked,
          text, idseq, idseqLock, db, req, hist>>
idxvars == <<lookup, pages, pagescap, added>>
bvvars == <<bvx, bvy>>
srvvars == <<idseq, idseqLock, db, req, hist>>

----------------------------------------------------------------------------
(* Bounds of the model. *)

\* Page capacity used by the bounded index model (stands for len(Page.items)).
PageCap == 1
\* Number of Indexer.Add calls in a run of the bounded index model.
MaxAdds == 4
\* Largest limit passed to Search.
MaxLimit == 3
\* Largest BitVector size constructed.
MaxSize == 10
\* Longest string handed to Scan.
MaxTextLen == 9
\* Number of POST requests in a run of the server model.
MaxPosts == 3
\* Number of restarts of the server in a run of the server model.
MaxRestarts == 1
\* Number of Indexer.Add calls in a run of the single-bucket model.
MaxChainAdds == 1026

\* len(Page.items), the real page capacity.
ItemsLen == 1023
\* The index's bitsize (argument of NewIndexer).
bitsize == 8

\* Item identifiers and bucket keys drawn as inputs.
Ids == {1, 2}
Keys == {0, 1, 3}

NoPage == 0 - 1

----------------------------------------------------------------------------
(* Package bitvector. *)

\* 1 << n
Pow2(n) == 2 ^ n

\* bit n of the byte b
BitOf(b, n) == (b \div Pow2(n)) % 2

\* b ^ c on uint8
XorByte(b, c) ==
    LET x(n) == IF BitOf(b, n) # BitOf(c, n) THEN Pow2(n) ELSE 0
    IN  x(0) + x(1) + x(2) + x(3) + x(4) + x(5) + x(6) + x(7)

\* popcnt[b]: the number of bits set in the byte b
popcnt(b) ==
    BitOf(b, 0) + BitOf(b, 1) + BitOf(b, 2) + BitOf(b, 3)
        + BitOf(b, 4) + BitOf(b, 5) + BitOf(b, 6) + BitOf(b, 7)

\* New(size): size >> 3 zero bytes.  bits[i] of the code is bits[i + 1] here.
New(size) == [size |-> size, bits |-> [i \in 1..(size \div 8) |-> 0]]

\* bv.ByteSize(): (size + 7) >> 3
ByteSize(bv) == (bv.size + 7) \div 8

\* bv.bits[i >> 3] is in range
InRange(bv, i) == (i \div 8) + 1 <= Len(bv.bits)

\* bv.Set(i), for an index that is in range (the call panics otherwise)
Set(bv, i) ==
    LET b == bv.bits[(i \div 8) + 1]
    IN  [bv EXCEPT !.bits[(i \div 8) + 1] =
            IF BitOf(b, i % 8) = 1 THEN b ELSE b + Pow2(i % 8)]

\* bv.Unset(i), for an index that is in range (the call panics otherwise)
Unset(bv, i) ==
    LET b == bv.bits[(i \div 8) + 1]
    IN  [bv EXCEPT !.bits[(i \div 8) + 1] =
            IF BitOf(b, i % 8) = 1 THEN b - Pow2(i % 8) ELSE b]

\* bv.Get(i), for an index that is in range (the call panics otherwise)
Get(bv, i) == BitOf(bv.bits[(i \div 8) + 1], i % 8) = 1

\* Hamming(x, y) panics: its loop reads x.bits[i] and y.bits[i] for every
\* i < x.ByteSize()
HammingPanics(x, y) == ByteSize(x) > Len(x.bits) \/ ByteSize(x) > Len(y.bits)

RECURSIVE HammingFrom(_, _, _)
HammingFrom(x, y, i) ==
    IF i >= ByteSize(x) THEN 0
    ELSE popcnt(XorByte(x.bits[i + 1], y.bits[i + 1])) + HammingFrom(x, y, i + 1)

\* Hamming(x, y), when it does not panic: the sum of popcnt[x.bits[i] ^ y.bits[i]]
\* for i < x.ByteSize()
Hamming(x, y) == HammingFrom(x, y, 0)

\* FromUint32(k, size): the vector whose packed bytes are k, little-endian
FromUint32(k, size) ==
    [size |-> size,
     bits |-> [i \in 1..((size + 7) \div 8) |-> (k \div Pow2(8 * (i - 1))) % 256]]

\* (BitVectorSlice).SortFrom(c): sort.Sort by ByHamming.Less is not stable and
\* the keys come out of a map in any order, so every arrangement of the keys
\* in which Less never holds from a later to an earlier element is possible.
SortFrom(S, c) ==
    LET dist == [k \in S |-> Hamming(c, FromUint32(k, bitsize))]
    IN  {s \in [1..Cardinality(S) -> S] :
            /\ \A i, j \in DOMAIN s : i # j => s[i] # s[j]
            /\ \A i, j \in DOMAIN s : i < j => ~(dist[s[j]] < dist[s[i]])}

----------------------------------------------------------------------------
(* Page, pageIter and Storage. *)

\* Page{} after Init(): no item, link -1
NewPage == [nitems |-> 0, link |-> NoPage, items |-> <<>>]

\* s.getPage(pageno)
getPage(ps, pageno) == ps[pageno + 1]

\* Full with the count test off by one: a page takes one item more
FullOffByOne(cap, p) == p.nitems = cap + 1

\* p.Full() for a page of capacity cap
Full(cap, p) == p.nitems = cap

\* p.Add(itemid)
PageAdd(p, itemid) ==
    [p EXCEPT !.items = Append(p.items, itemid), !.nitems = p.nitems + 1]

\* p.Link(next)
Link(p, next) == [p EXCEPT !.link = next]

\* The page numbers a pageIter started at pageno makes current, in order.  The
\* walk ends at link -1; it also ends where next() would panic (PagePanics).
RECURSIVE PageWalk(_, _, _)
PageWalk(ps, pageno, fuel) ==
    IF pageno = NoPage \/ pageno >= Len(ps) \/ pageno < 0 \/ fuel = 0 THEN <<>>
    ELSE <<pageno>> \o PageWalk(ps, getPage(ps, pageno).link, fuel - 1)

pageIterator(ps, pageno) == PageWalk(ps, pageno, Len(ps) + 1)

\* iter.next() panics (or never ends) on the chain starting at pageno
PagePanics(ps, pageno) ==
    LET w == pageIterator(ps, pageno)
    IN  IF w = <<>> THEN pageno # NoPage
        ELSE getPage(ps, w[Len(w)]).link # NoPage

\* growslice for an append of one Page (8192 bytes) to a full slice:
\* the capacity doubles, from 0 it becomes 1
GrowCap(n) == IF n = 0 THEN 1 ELSE 2 * n

\* s.allocatePage(): the storage after the call, the new page's number, and
\* whether append moved the pages to a new backing array
allocatePage(ps, pcap) ==
    [pages |-> Append(ps, NewPage),
     pcap  |-> IF Len(ps) = pcap THEN GrowCap(pcap) ELSE pcap,
     moved |-> Len(ps) = pcap,
     n     |-> Len(ps)]

\* The page.Link(newpageno) of Storage.Add, through the *Page taken before
\* allocatePage: it reaches s.pages only if append did not move the pages.
LinkThroughOldPointer(a, tailno) ==
    IF a.moved THEN a.pages
    ELSE [a.pages EXCEPT ![tailno + 1] = Link(@, a.n)]

\* s.Add(itemid, pageno) for pages of capacity cap: the storage after the
\* call and the page number returned
StorageAdd(cap, ps, pcap, itemid, pageno) ==
    LET walk   == pageIterator(ps, pageno)
        tailno == walk[Len(walk)]
    IN  IF Full(cap, getPage(ps, tailno))
        THEN LET a      == allocatePage(ps, pcap)
                 linked == LinkThroughOldPointer(a, tailno)
             IN  [pages |-> [linked EXCEPT ![a.n + 1] = PageAdd(@, itemid)],
                  pcap  |-> a.pcap,
                  pageno |-> a.n]
        ELSE [pages |-> [ps EXCEPT ![tailno + 1] = PageAdd(@, itemid)],
              pcap  |-> pcap,
              pageno |-> tailno]

\* The items of the chain starting at pageno: page.Gets() of every page the
\* iterator visits, concatenated
RECURSIVE GetsAll(_, _)
GetsAll(ps, walk) ==
    IF walk = <<>> THEN <<>>
    ELSE getPage(ps, Head(walk)).items \o GetsAll(ps, Tail(walk))

ChainItems(ps, pageno) == GetsAll(ps, pageIterator(ps, pageno))

\* The sum of page.CountItems() over the pages the iterator visits
RECURSIVE CountAll(_, _)
CountAll(ps, walk) ==
    IF walk = <<>> THEN 0
    ELSE getPage(ps, Head(walk)).nitems + CountAll(ps, Tail(walk))

----------------------------------------------------------------------------
(* Indexer. *)

\* StopBefore with the limit test off by one: the loop goes on while the
\* result holds exactly limit items
StopBeforeOffByOne(lastdist, thisdist, nitems, limit) ==
    lastdist # thisdist /\ nitems > limit

\* The test that ends the loop of Search before the bucket at thisdist
StopBefore(lastdist, thisdist, nitems, limit) ==
    lastdist # thisdist /\ nitems >= limit

\* The loop of Indexer.Search over the sorted keys lkeys: the items collected,
\* and (for the record) the keys whose chains were read, in order
RECURSIVE SearchLoop(_, _, _, _, _, _)
SearchLoop(lkeys, items, drained, lastdist, key, limit) ==
    IF lkeys = <<>> THEN [items |-> items, drained |-> drained]
    ELSE LET thiskey  == Head(lkeys)
             thisdist == Hamming(FromUint32(key, bitsize),
                                 FromUint32(thiskey, bitsize))
         IN  IF StopBefore(lastdist, thisdist, Len(items), limit)
             THEN [items |-> items, drained |-> drained]
             ELSE SearchLoop(Tail(lkeys),
                             items \o ChainItems(pages, lookup[thiskey]),
                             Append(drained, thiskey),
                             thisdist, key, limit)

\* idx.Add(itemid, vec), key being the bucket key of vec
IndexerAdd(cap, itemid, key) ==
    /\ ~panicked
    /\ LET a      == IF key \in DOMAIN lookup
                     THEN [pages |-> pages, pcap |-> pagescap,
                           n |-> lookup[key]]
                     ELSE allocatePage(pages, pagescap)
           r      == StorageAdd(cap, a.pages, a.pcap, itemid, a.n)
       IN  /\ lookup' = IF key \in DOMAIN lookup THEN lookup
                        ELSE [k \in DOMAIN lookup \cup {key} |->
                                 IF k = key THEN a.n ELSE lookup[k]]
           /\ pages' = r.pages
           /\ pagescap' = r.pcap
           /\ op' = [name |-> "Add", id |-> itemid, key |-> key,
                     pageno |-> r.pageno]
    /\ added' = Append(added, [id |-> itemid, key |-> key])
    /\ ret' = <<>>
    /\ UNCHANGED <<bvvars, panicked, text, srvvars>>

\* Search that looks the query key up the way Add does: a key with no bucket
\* gets a page allocated and recorded before the buckets are ranked
SearchAllocating(key, limit) ==
    /\ ~panicked
    /\ IF key \in DOMAIN lookup
       THEN UNCHANGED <<lookup, pages, pagescap>>
       ELSE LET a == allocatePage(pages, pagescap)
            IN  /\ lookup' = [k \in DOMAIN lookup \cup {key} |->
                                 IF k = key THEN a.n ELSE lookup[k]]
                /\ pages' = a.pages
                /\ pagescap' = a.pcap
    /\ \E lkeys \in SortFrom(DOMAIN lookup, FromUint32(key, bitsize)) :
          LET r == SearchLoop(lkeys, <<>>, <<>>, 0, key, limit)
          IN  /\ ret' = r.items
              /\ op' = [name |-> "Search", key |-> key, limit |-> limit,
                        drained |-> r.drained]
    /\ UNCHANGED <<added, bvvars, panicked, text, srvvars>>

\* idx.Search(vec, limit), key being the bucket key of vec
Search(key, limit) ==
    /\ ~panicked
    /\ \E lkeys \in SortFrom(DOMAIN lookup, FromUint32(key, bitsize)) :
          LET r == SearchLoop(lkeys, <<>>, <<>>, 0, key, limit)
          IN  /\ ret' = r.items
              /\ op' = [name |-> "Search", key |-> key, limit |-> limit,
                        drained |-> r.drained]
    /\ UNCHANGED <<idxvars, bvvars, panicked, text, srvvars>>

\* sort.Ints(keys)
RECURSIVE SortInts(_)
SortInts(S) ==
    IF S = {} THEN <<>>
    ELSE LET m == CHOOSE x \in S : \A y \in S : x <= y
         IN  <<m>> \o SortInts(S \ {m})

\* idx.Dump(): per key in ascending order, the page numbers of its chain and
\* the number of items counted
Dump ==
    /\ ~panicked
    /\ LET keys == SortInts(DOMAIN lookup)
       IN  ret' = [i \in DOMAIN keys |->
                     LET walk == pageIterator(pages, lookup[keys[i]])
                     IN  [key |-> keys[i], pagenolist |-> walk,
                          nitems |-> CountAll(pages, walk)]]
    /\ op' = [name |-> "Dump"]
    /\ UNCHANGED <<idxvars, bvvars, panicked, text, srvvars>>

----------------------------------------------------------------------------------------------------------------------------------------
(* The bounded index model: any Add, Search and Dump calls on a new index. *)

\* The variables of the server, with no request and an empty database
InitServerIdle ==
    /\ idseq = 1
    /\ idseqLock = 0
    /\ db = [seq |-> 0, ids |-> {}, paths |-> <<>>]
    /\ req = <<>>
    /\ hist = [run |-> <<>>, created |-> <<>>, posts |-> 0, restarts |-> 0]

InitIndex ==
    /\ lookup = <<>>
    /\ pages = <<>>
    /\ pagescap = 0
    /\ added = <<>>

Init ==
    /\ InitIndex
    /\ op = [name |-> "NewIndexer"]
    /\ ret = <<>>
    /\ bvx = New(0)
    /\ bvy = New(0)
    /\ panicked = FALSE
    /\ text = <<>>
    /\ InitServerIdle

AddStep ==
    /\ Len(added) < MaxAdds
    /\ \E itemid \in Ids, key \in Keys : IndexerAdd(PageCap, itemid, key)

SearchStep ==
    /\ op.name # "Search"
    /\ \E key \in Keys, limit \in 0..MaxLimit : Search(key, limit)

DumpStep ==
    /\ op.name # "Dump"
    /\ Dump

Next == AddStep \/ SearchStep \/ DumpStep

Spec == Init /\ [][Next]_vars

----------------------------------------------------------------------------
(* The single-bucket model: pages of the real capacity, every Add going to *)
(* one bucket with a fresh item identifier, and Dump.                      *)

ChainAddStep ==
    /\ Len(added) < MaxChainAdds
    /\ \E key \in Keys :
          /\ IF added = <<>> THEN TRUE ELSE key = added[1].key
          /\ IndexerAdd(ItemsLen, Len(added) + 1, key)

ChainDumpStep ==
    /\ op.name # "Dump"
    /\ Dump

NextChain == ChainAddStep \/ ChainDumpStep

SpecChain == Init /\ [][NextChain]_vars

----------------------------------------------------------------------------
(* The bit vector model: two vectors of one size; bvy is left as built,    *)
(* bvx is acted on by Set, Unset, Get, and Hamming is called on the two.   *)

\* New(size) followed by Set(i) for every i of I
RECURSIVE SetAll(_, _)
SetAll(bv, I) ==
    IF I = {} THEN bv
    ELSE LET i == CHOOSE j \in I : TRUE
         IN  SetAll(Set(bv, i), I \ {i})

\* The bits set in bvy when it is built: none, bit 0, the odd bits, all bits
BuiltBits(size) ==
    {{}, {0}, {i \in 0..(size - 1) : i % 2 = 1}, 0..(size - 1)}

InitBV ==
    /\ InitIndex
    /\ \E size \in 1..MaxSize :
          \E I \in BuiltBits(size) :
             /\ \A i \in I : InRange(New(size), i)
             /\ bvx = New(size)
             /\ bvy = SetAll(New(size), I)
             /\ op = [name |-> "New", size |-> size]
    /\ ret = <<>>
    /\ panicked = FALSE
    /\ text = <<>>
    /\ InitServerIdle

\* a call on bvx that indexes bits[i >> 3] out of range panics
BVPanic(name, i) ==
    /\ ~InRange(bvx, i)
    /\ panicked' = TRUE
    /\ op' = [name |-> name, i |-> i]
    /\ UNCHANGED <<idxvars, bvvars, ret, text, srvvars>>

BVSet(i) ==
    /\ ~panicked
    /\ \/ BVPanic("Set", i)
       \/ /\ InRange(bvx, i)
          /\ bvx' = Set(bvx, i)
          /\ op' = [name |-> "Set", i |-> i]
          /\ UNCHANGED <<idxvars, bvy, ret, panicked, text, srvvars>>

BVUnset(i) ==
    /\ ~panicked
    /\ \/ BVPanic("Unset", i)
       \/ /\ InRange(bvx, i)
          /\ bvx' = Unset(bvx, i)
          /\ op' = [name |-> "Unset", i |-> i]
          /\ UNCHANGED <<idxvars, bvy, ret, panicked, text, srvvars>>

BVGet(i) ==
    /\ ~panicked
    /\ \/ BVPanic("Get", i)
       \/ /\ InRange(bvx, i)
          /\ ret' = Get(bvx, i)
          /\ op' = [name |-> "Get", i |-> i]
          /\ UNCHANGED <<idxvars, bvvars, panicked, text, srvvars>>

\* Hamming(bvx, bvy)
BVHamming ==
    /\ ~panicked
    /\ op' = [name |-> "Hamming"]
    /\ IF HammingPanics(bvx, bvy)
       THEN panicked' = TRUE /\ UNCHANGED ret
       ELSE ret' = Hamming(bvx, bvy) /\ UNCHANGED panicked
    /\ UNCHANGED <<idxvars, bvvars, text, srvvars>>

SetStep == \E i \in 0..(bvx.size - 1) : BVSet(i)

UnsetStep == \E i \in 0..(bvx.size - 1) : BVUnset(i)

GetStep == \E i \in 0..(bvx.size - 1) : BVGet(i)

HammingStep == op.name # "Hamming" /\ BVHamming

NextBV == SetStep \/ UnsetStep \/ GetStep \/ HammingStep

SpecBV == InitBV /\ [][NextBV]_vars

----------------------------------------------------------------------------
(* The parsing model: Scan of a string, then String() of the vector it     *)
(* returned.  A string is a sequence of characters.                        *)

\* The characters strings are made of: the three Scan allows, and another
Chars == {"0", "1", " ", "x"}

\* Scan reaches its default case: some character is not '1', '0' or ' '
ScanErr(s) == \E i \in DOMAIN s : s[i] \notin {"1", "0", " "}

\* The bits Scan's first loop collects
ScanBits(s) ==
    LET digits == SelectSeq(s, LAMBDA c : c \in {"1", "0"})
    IN  [i \in DOMAIN digits |-> digits[i] = "1"]

\* Scan's second loop panics: it calls Set(i) for a bit that is true and whose
\* byte is outside the buffer New(len(bits)) made
ScanPanics(s) ==
    LET bits == ScanBits(s)
    IN  \E i \in DOMAIN bits : bits[i] /\ ~InRange(New(Len(bits)), i - 1)

\* The vector Scan returns when it neither fails nor panics
ScanVector(s) ==
    LET bits == ScanBits(s)
    IN  SetAll(New(Len(bits)), {i - 1 : i \in {j \in DOMAIN bits : bits[j]}})

\* bv.String() panics: it calls Get(i) for every i < size
StringPanics(bv) == \E i \in 0..(bv.size - 1) : ~InRange(bv, i)

\* bv.String(), from bit i on: a space before every bit i > 0 with i % 8 = 0
RECURSIVE StringFrom(_, _)
StringFrom(bv, i) ==
    IF i >= bv.size THEN <<>>
    ELSE (IF i > 0 /\ i % 8 = 0 THEN <<" ">> ELSE <<>>)
             \o <<IF Get(bv, i) THEN "1" ELSE "0">>
             \o StringFrom(bv, i + 1)

String(bv) == StringFrom(bv, 0)

\* The strings of length n over Chars
TextsOfLen(n) == [1..n -> Chars]

InitScan ==
    /\ InitIndex
    /\ \E n \in 0..MaxTextLen : text \in TextsOfLen(n)
    /\ op = [name |-> "text"]
    /\ ret = <<>>
    /\ bvx = New(0)
    /\ bvy = New(0)
    /\ panicked = FALSE
    /\ InitServerIdle

\* bv, err := Scan(text)
ScanStep ==
    /\ ~panicked
    /\ op.name = "text"
    /\ op' = [name |-> "Scan"]
    /\ IF ScanErr(text)
       THEN /\ ret' = [err |-> TRUE, isnil |-> TRUE]
            /\ UNCHANGED <<bvx, panicked>>
       ELSE IF ScanPanics(text)
       THEN /\ panicked' = TRUE
            /\ UNCHANGED <<bvx, ret>>
       ELSE /\ bvx' = ScanVector(text)
            /\ ret' = [err |-> FALSE, isnil |-> FALSE]
            /\ UNCHANGED panicked
    /\ UNCHANGED <<idxvars, bvy, text, srvvars>>

\* bv.String() of the vector Scan returned
StringStep ==
    /\ ~panicked
    /\ op.name = "Scan"
    /\ ~ret.err
    /\ op' = [name |-> "String"]
    /\ IF StringPanics(bvx)
       THEN panicked' = TRUE /\ UNCHANGED ret
       ELSE ret' = String(bvx) /\ UNCHANGED panicked
    /\ UNCHANGED <<idxvars, bvvars, text, srvvars>>

NextScan == ScanStep \/ StringStep

SpecScan == InitScan /\ [][NextScan]_vars

----------------------------------------------------------------------------
(* The server model: POST requests served concurrently (ServePost), each   *)
(* step one access to the shared state, and restarts of the process.       *)

\* The request slots (goroutines serving a POST) and the user paths
Reqs == {1, 2}
Paths == {"/a", "/b"}

\* binary.PutUvarint: 7 bits per byte, low bits first, 0x80 on all but the last
RECURSIVE PutUvarint(_)
PutUvarint(x) ==
    IF x < 128 THEN <<x>> ELSE <<(x % 128) + 128>> \o PutUvarint(x \div 128)

\* id.Bytes(): the uvarint of id in a buffer of 8 zero bytes
Bytes(id) ==
    LET enc == PutUvarint(id)
    IN  [i \in 1..8 |-> IF i <= Len(enc) THEN enc[i] ELSE 0]

\* binary.Uvarint from byte i on, acc being the value read so far: 0 when the
\* buffer ends before a byte below 0x80
RECURSIVE UvarintFrom(_, _, _)
UvarintFrom(buf, i, acc) ==
    IF i > Len(buf) THEN 0
    ELSE IF buf[i] < 128 THEN acc + buf[i] * (128 ^ (i - 1))
    ELSE UvarintFrom(buf, i + 1, acc + (buf[i] - 128) * (128 ^ (i - 1)))

\* ToItemId(val)
ToItemId(val) == UvarintFrom(val, 1, 0)

\* id.Key(): _PathSeqNS followed by id.Bytes()
Key(id) == <<"sys.ns.seq">> \o Bytes(id)

\* s.Db.Has(id.Key())
Has(id) == Key(id) \in db.ids

\* NewServer: idseq from the value at _PathIdSeq, ItemId(1) when there is none
NewServerIdseq(d) == IF d.seq = <<>> THEN ToItemId(Bytes(1)) ELSE ToItemId(d.seq)

IdleReq == [pc |-> "idle", path |-> "", id |-> 0, isnew |-> FALSE]

InitServer ==
    /\ InitIndex
    /\ bvx = New(0)
    /\ bvy = New(0)
    /\ text = <<>>
    /\ panicked = FALSE
    /\ op = [name |-> "NewServer"]
    /\ ret = <<>>
    /\ db = [seq |-> <<>>, ids |-> {}, paths |-> <<>>]
    /\ idseq = NewServerIdseq([seq |-> <<>>])
    /\ idseqLock = 0
    /\ req = [r \in Reqs |-> IdleReq]
    /\ hist = [run |-> <<>>, created |-> <<>>, posts |-> 0, restarts |-> 0]

srvframe == <<idxvars, bvvars, text, ret, panicked>>

\* a POST for the path arrives: ServePost reads key := r.URL.Path
PostArrives(r, path) ==
    /\ req[r].pc = "idle"
    /\ hist.posts < MaxPosts
    /\ req' = [req EXCEPT ![r] = [pc |-> "get", path |-> path, id |-> 0,
                                  isnew |-> FALSE]]
    /\ hist' = [hist EXCEPT !.posts = @ + 1]
    /\ op' = [name |-> "POST", r |-> r]
    /\ UNCHANGED <<idseq, idseqLock, db, srvframe>>

\* s.Db.Get(key): meta.ItemId of the stored item; 0 when there is none, when
\* Get fails or when the stored JSON does not parse (failed)
FetchItem(r, failed) ==
    /\ req[r].pc = "get"
    /\ LET id == IF ~failed /\ req[r].path \in DOMAIN db.paths
                 THEN db.paths[req[r].path] ELSE 0
       IN  req' = [req EXCEPT ![r].id = id, ![r].isnew = (id = 0),
                              ![r].pc = IF id = 0 THEN "lock" ELSE "write"]
    /\ op' = [name |-> "Get", r |-> r]
    /\ UNCHANGED <<idseq, idseqLock, db, hist, srvframe>>

\* NextItemId: s.idseqLock.Lock()
LockIdseq(r) ==
    /\ req[r].pc = "lock"
    /\ idseqLock = 0
    /\ idseqLock' = r
    /\ req' = [req EXCEPT ![r].pc = "loop"]
    /\ op' = [name |-> "Lock", r |-> r]
    /\ UNCHANGED <<idseq, db, hist, srvframe>>

\* NextItemId: one turn of the loop, exists being the answer of s.Db.Has for
\* val; val is returned (and the lock released by the deferred Unlock) when the
\* database has no key for it
NextItemIdLoop(r, exists) ==
    /\ req[r].pc = "loop"
    /\ idseqLock = r
    /\ LET val == idseq
       IN  /\ idseq' = idseq + 1
           /\ IF exists
              THEN /\ op' = [name |-> "NextItemId", r |-> r, returned |-> FALSE,
                             val |-> val]
                   /\ UNCHANGED <<req, idseqLock, hist>>
              ELSE /\ op' = [name |-> "NextItemId", r |-> r, returned |-> TRUE,
                             val |-> val]
                   /\ req' = [req EXCEPT ![r].id = val, ![r].pc = "write"]
                   /\ idseqLock' = 0
                   /\ hist' = [hist EXCEPT !.run = Append(@, val)]
    /\ UNCHANGED <<db, srvframe>>

\* A NextItemId that gives out the sequence value without asking the database
NextItemIdUnchecked(r) == NextItemIdLoop(r, FALSE)

\* NextItemId: a turn of the loop with the answer of s.Db.Has(val.Key())
NextItemIdTurn(r) == NextItemIdLoop(r, Has(idseq))

\* s.Db.Write(batch): the path's metadata and, for a new item, its ItemId key
\* and the sequence hint, in one atomic batch
WriteBatch(r) ==
    /\ req[r].pc = "write"
    /\ LET q == req[r]
           paths == [p \in DOMAIN db.paths \cup {q.path} |->
                        IF p = q.path THEN q.id ELSE db.paths[p]]
       IN  /\ db' = IF q.isnew
                    THEN [seq |-> Bytes(q.id), ids |-> db.ids \cup {Key(q.id)},
                          paths |-> paths]
                    ELSE [db EXCEPT !.paths = paths]
           /\ hist' = IF q.isnew
                      THEN [hist EXCEPT !.created = Append(@, q.id)]
                      ELSE hist
    /\ req' = [req EXCEPT ![r] = IdleReq]
    /\ op' = [name |-> "Write", r |-> r]
    /\ UNCHANGED <<idseq, idseqLock, srvframe>>

\* s.Db.Write(batch) returns an error: nothing is written
WriteFails(r) ==
    /\ req[r].pc = "write"
    /\ req' = [req EXCEPT ![r] = IdleReq]
    /\ op' = [name |-> "WriteError", r |-> r]
    /\ UNCHANGED <<idseq, idseqLock, db, hist, srvframe>>

\* The process stops, whatever its requests were doing, and NewServer runs
\* again on the database as it is
Restart ==
    /\ hist.restarts < MaxRestarts
    /\ req' = [r \in Reqs |-> IdleReq]
    /\ idseqLock' = 0
    /\ idseq' = NewServerIdseq(db)
    /\ hist' = [hist EXCEPT !.run = <<>>, !.restarts = @ + 1]
    /\ op' = [name |-> "Restart"]
    /\ UNCHANGED <<db, srvframe>>

PostStep == \E r \in Reqs, path \in Paths : PostArrives(r, path)

FetchStep == \E r \in Reqs, failed \in BOOLEAN : FetchItem(r, failed)

LockStep == \E r \in Reqs : LockIdseq(r)

TurnStep == \E r \in Reqs : NextItemIdTurn(r)

WriteStep == \E r \in Reqs : WriteBatch(r)

WriteFailStep == \E r \in Reqs : WriteFails(r)

NextServer ==
    PostStep \/ FetchStep \/ LockStep \/ TurnStep \/ WriteStep
        \/ WriteFailStep \/ Restart

SpecServer == InitServer /\ [][NextServer]_vars

----------------------------------------------------------------------------
(* Vocabulary of the properties. *)

\* The item identifiers added to bucket k, in the order of the Add calls
AddedTo(k) ==
    LET sel == SelectSeq(added, LAMBDA a : a.key = k)
    IN  [i \in DOMAIN sel |-> sel[i].id]

\* The number of positions of seq that hold x
Count(seq, x) == Cardinality({i \in DOMAIN seq : seq[i] = x})

\* Hamming distance between the bucket keys q and k
Dist(q, k) == Hamming(FromUint32(q, bitsize), FromUint32(k, bitsize))

\* The concatenation of the added items of the buckets ks[1], ks[2], ...
RECURSIVE ConcatAdded(_)
ConcatAdded(ks) ==
    IF ks = <<>> THEN <<>> ELSE AddedTo(Head(ks)) \o ConcatAdded(Tail(ks))

\* The arrangements of the keys of D in non-decreasing distance from q
ByDistance(D, q) ==
    {s \in [1..Cardinality(D) -> D] :
        /\ \A i, j \in DOMAIN s : i # j => s[i] # s[j]
        /\ \A i, j \in DOMAIN s : i < j => Dist(q, s[i]) <= Dist(q, s[j])}

\* The number of Add calls whose bucket is strictly closer to q than distance d
AddedCloser(q, d) ==
    Cardinality({i \in DOMAIN added : Dist(q, added[i].key) < d})

\* The number of Add calls whose bucket is at distance d from q
AddedAt(q, d) ==
    Cardinality({i \in DOMAIN added : Dist(q, added[i].key) = d})

----------------------------------------------------------------------------
(* Properties. *)

\* C1: after any Adds, Search with the bucket key of an added item and any
\* limit >= 1 returns a result that contains that item's id, also for items
\* added after the bucket's first page became full.
C1_SearchFindsEveryAdded ==
    (op.name = "Search" /\ op.limit >= 1) =>
        \A i \in DOMAIN added :
            added[i].key = op.key => \E j \in DOMAIN ret : ret[j] = added[i].id

\* C2: for every bucket key the item count Dump reports (the sum over the
\* pages walked from the head) equals the number of Adds to that key; a bucket
\* that received more than C = 1023 items has more than one linked page; and
\* 1025 Adds to one bucket give exactly 2 pages holding 1023 and 2 items.
C2_DumpCountsEveryAdd ==
    op.name = "Dump" =>
        /\ \A i \in DOMAIN added : \E j \in DOMAIN ret : ret[j].key = added[i].key
        /\ \A j \in DOMAIN ret :
              LET n == Len(AddedTo(ret[j].key))
                  w == ret[j].pagenolist
              IN  /\ ret[j].nitems = n
                  /\ n > ItemsLen => Len(w) > 1
                  /\ n = ItemsLen + 2 =>
                        /\ Len(w) = 2
                        /\ getPage(pages, w[1]).nitems = ItemsLen
                        /\ getPage(pages, w[2]).nitems = 2

\* C3: Search returns at least limit identifiers unless fewer than limit items
\* were added to the index.
C3_AtLeastLimit ==
    op.name = "Search" => (Len(ret) >= op.limit \/ Len(added) < op.limit)

\* C4: the result of Search is the concatenation of complete buckets in
\* non-decreasing Hamming distance from the query key: each bucket comes with
\* all the items added to it or with none, and no bucket left out is strictly
\* closer to the query key than a bucket that was returned.
C4_CompleteBucketsByDistance ==
    op.name = "Search" =>
        \E D \in SUBSET (DOMAIN lookup) :
            /\ \E ks \in ByDistance(D, op.key) : ret = ConcatAdded(ks)
            /\ \A k \in D, out \in (DOMAIN lookup) \ D :
                  ~(Dist(op.key, out) < Dist(op.key, k))

\* C5: Search returns the buckets at distance d from the query key if and only
\* if fewer than limit items are in buckets strictly closer than d, for every
\* limit >= 0.
C5_ExactlyTheNeededTiers ==
    op.name = "Search" =>
        \A k \in DOMAIN lookup :
            (\E j \in DOMAIN op.drained : op.drained[j] = k)
                <=> (AddedCloser(op.key, Dist(op.key, k)) < op.limit)

\* The case of C6: one item in the bucket of the query key, two items in
\* buckets at distance 1 from it, and Search was called with limit 1.
C6_Case ==
    /\ op.name = "Search"
    /\ op.limit = 1
    /\ AddedAt(op.key, 0) = 1
    /\ AddedAt(op.key, 1) = 2

\* C6 as stated: in that case Search returns all three items.
C6_ReturnsAllThree ==
    C6_Case =>
        /\ Len(ret) = 3
        /\ \A id \in Ids :
              Count(ret, id) =
                  Cardinality({i \in DOMAIN added :
                      /\ added[i].id = id
                      /\ Dist(op.key, added[i].key) <= 1})

\* C6, amended: in that case Search returns the one item of the bucket at
\* distance 0 and nothing else.
C6_ReturnsOnlyTheClosest ==
    C6_Case => ret = AddedTo(op.key)

C6_Witness ==
    /\ C6_Case
    /\ Len(added) = 3
    /\ Len(ret) = 1

\* C7: when the index holds fewer items than limit, Search returns exactly the
\* identifiers that were added, each as many times as it was added; an index
\* with no bucket returns the empty sequence.
C7_ExhaustedReturnsEverything ==
    op.name = "Search" =>
        /\ Len(added) < op.limit =>
              \A id \in Ids :
                  Count(ret, id) = Count([i \in DOMAIN added |-> added[i].id], id)
        /\ DOMAIN lookup = {} => ret = <<>>

\* C8: Storage.Add on a chain whose tail is full links the old tail to the
\* newly allocated page, which holds exactly itemId and ends the chain, and
\* returns the new page's position, also when the allocation moves the backing
\* array; when the tail is not full the item is appended to the tail and no
\* page is allocated.
C8_AddLinksNewPage ==
    [][op'.name = "Add" =>
          LET key    == op'.key
              before == IF key \in DOMAIN lookup THEN pages
                        ELSE Append(pages, NewPage)
              walk   == pageIterator(before, lookup'[key])
              tailno == walk[Len(walk)]
              tail   == getPage(before, tailno)
          IN  IF Full(PageCap, tail)
              THEN /\ Len(pages') = Len(before) + 1
                   /\ getPage(pages', tailno).link = Len(before)
                   /\ getPage(pages', Len(before)) =
                         [nitems |-> 1, link |-> NoPage, items |-> <<op'.id>>]
                   /\ op'.pageno = Len(before)
              ELSE /\ Len(pages') = Len(before)
                   /\ getPage(pages', tailno) = PageAdd(tail, op'.id)
                   /\ op'.pageno = tailno]_vars

\* C9: a BitVector built with any size >= 1 holds ceil(size/8) bytes, and for
\* every i < size: Get(i) is false before any Set, true after Set(i), false
\* after Unset(i); Set(i) and Unset(i) leave every other bit as it was; and
\* none of the calls fails.
C9_SetUnsetGet ==
    [][/\ ~panicked'
       /\ Len(bvx.bits) = (bvx.size + 7) \div 8
       /\ op.name = "New" =>
             \A i \in 0..(bvx.size - 1) : InRange(bvx, i) /\ ~Get(bvx, i)
       /\ op'.name = "Set" => Get(bvx', op'.i)
       /\ op'.name = "Unset" => ~Get(bvx', op'.i)
       /\ op'.name \in {"Set", "Unset"} =>
             \A j \in 0..(bvx.size - 1) :
                 j # op'.i => Get(bvx', j) = Get(bvx, j)
       /\ op'.name = "Get" => ret' = Get(bvx, op'.i)]_vars

\* C10: for vectors x and y of the same size n >= 1: Hamming(x, x) = 0,
\* Hamming(x, y) = Hamming(y, x), Hamming(x, y) is the number of indices
\* i < n where Get differs, and the all-set and the all-clear vector of size n
\* are at distance n.
C10_HammingLaws ==
    LET n == bvx.size
    IN  /\ ~HammingPanics(bvx, bvx)
        /\ ~HammingPanics(bvx, bvy)
        /\ ~HammingPanics(bvy, bvx)
        /\ op.name = "Hamming" => ~panicked /\ ret = Hamming(bvx, bvy)
        /\ Hamming(bvx, bvx) = 0
        /\ Hamming(bvx, bvy) = Hamming(bvy, bvx)
        /\ \A i \in 0..(n - 1) : InRange(bvx, i) /\ InRange(bvy, i)
        /\ Hamming(bvx, bvy) =
              Cardinality({i \in 0..(n - 1) : Get(bvx, i) # Get(bvy, i)})
        /\ ((\A i \in 0..(n - 1) : Get(bvy, i) /\ ~Get(bvx, i))
               => Hamming(bvx, bvy) = n)


\* The '0' and '1' characters of a string, in order
Digits(s) == SelectSeq(s, LAMBDA c : c \in {"0", "1"})

\* C11: for every string of '0', '1' and spaces Scan succeeds with a vector
\* whose size is the number of '0'/'1' characters, and String() of it, spaces
\* removed, equals the string with its spaces removed; for a string with any
\* other character Scan returns an error and no BitVector.
C11_ScanStringRoundTrip ==
    /\ (op.name \in {"Scan", "String"} /\ ~ScanErr(text)) => ~panicked
    /\ (op.name = "Scan" /\ ~ScanErr(text)) =>
          /\ ~ret.err /\ ~ret.isnil
          /\ bvx.size = Len(Digits(text))
    /\ (op.name = "Scan" /\ ScanErr(text)) => (ret.err /\ ret.isnil)
    /\ op.name = "String" => Digits(ret) = Digits(text)


\* C12: Dump and Search are read-only: a call of either leaves the lookup
\* table, the number of pages, and every page's item count, items and link as
\* they were (so a later Search or Dump answers as if it had not happened).
C12_DumpSearchReadOnly ==
    [][op'.name \in {"Search", "Dump"} =>
          /\ lookup' = lookup
          /\ Len(pages') = Len(pages)
          /\ \A i \in DOMAIN pages :
                /\ pages'[i].nitems = pages[i].nitems
                /\ pages'[i].items = pages[i].items
                /\ pages'[i].link = pages[i].link]_vars

C12_Witness ==
    /\ op.name = "Search"
    /\ op.key \notin DOMAIN lookup
    /\ Len(ret) >= 2
    /\ Len(pages) >= 2

\* C13: after any Adds every page has 0 <= count <= C; every bucket key maps
\* to a valid page position; the links from that head visit only valid
\* positions and end at -1 (the page iterator never panics); and the chain
\* holds at least one item.
C13_ChainsWellFormed ==
    /\ \A i \in DOMAIN pages :
          /\ 0 <= pages[i].nitems
          /\ pages[i].nitems <= PageCap
          /\ pages[i].nitems = Len(pages[i].items)
    /\ \A k \in DOMAIN lookup :
          /\ 0 <= lookup[k]
          /\ lookup[k] < Len(pages)
          /\ ~PagePanics(pages, lookup[k])
          /\ CountAll(pages, pageIterator(pages, lookup[k])) >= 1

C13_Witness ==
    /\ op.name = "Add"
    /\ \E k \in DOMAIN lookup : Len(pageIterator(pages, lookup[k])) >= 2
    /\ \E i \in DOMAIN pages : pages[i].nitems = PageCap

\* C14: Indexer.Add(id, v) with bucket key k only appends: no lookup entry
\* changes or disappears, the items read from the head of every other bucket
\* are unchanged, the items read from k's head are the previous ones followed
\* by id, and the number of pages does not decrease.
C14_AddOnlyAppends ==
    [][op'.name = "Add" =>
          /\ \A k \in DOMAIN lookup :
                k \in DOMAIN lookup' /\ lookup'[k] = lookup[k]
          /\ \A k \in (DOMAIN lookup) \ {op'.key} :
                ChainItems(pages', lookup'[k]) = ChainItems(pages, lookup[k])
          /\ op'.key \in DOMAIN lookup'
          /\ ChainItems(pages', lookup'[op'.key]) =
                (IF op'.key \in DOMAIN lookup
                 THEN ChainItems(pages, lookup[op'.key]) ELSE <<>>)
                    \o <<op'.id>>
          /\ Len(pages') >= Len(pages)]_vars

\* C15: every allocated page is reachable from the head of exactly one bucket
\* (no orphan, no page shared by two chains), no chain has a cycle, and every
\* page that has a successor is full.
C15_EveryPageInOneChain ==
    /\ \A n \in 0..(Len(pages) - 1) :
          Cardinality({k \in DOMAIN lookup :
              \E i \in DOMAIN pageIterator(pages, lookup[k]) :
                  pageIterator(pages, lookup[k])[i] = n}) = 1
    /\ \A k \in DOMAIN lookup :
          LET w == pageIterator(pages, lookup[k])
          IN  /\ \A i, j \in DOMAIN w : i # j => w[i] # w[j]
              /\ ~PagePanics(pages, lookup[k])
    /\ \A i \in DOMAIN pages :
          pages[i].link # NoPage => pages[i].nitems = PageCap


\* No value occurs twice in seq
NoDuplicates(seq) == \A i, j \in DOMAIN seq : i # j => seq[i] # seq[j]

\* C16: under any interleaving of concurrent POSTs, and across a restart with
\* the persisted hint gone backward, NextItemId never returns an id it
\* returned before in the same run nor an id whose ItemId key is in the
\* database, so no two created items get the same ItemId; while the server is
\* up its in-memory sequence never decreases.
C16_ItemIdsUnique ==
    [][/\ (op'.name = "NextItemId" /\ op'.returned) =>
             /\ Key(op'.val) \notin db.ids
             /\ \A i \in DOMAIN hist.run : hist.run[i] # op'.val
       /\ NoDuplicates(hist'.run)
       /\ NoDuplicates(hist'.created)
       /\ op'.name # "Restart" => idseq' >= idseq]_vars

\* Two requests held ids at once and the one with the larger id wrote first,
\* so the hint went backward; after the restart NextItemId started from the
\* hint, passed the ids in the database and returned a new one.
C16_Witness ==
    /\ hist.restarts = 1
    /\ Len(hist.created) = 2
    /\ hist.created[1] > hist.created[2]
    /\ ToItemId(db.seq) = hist.created[2]
    /\ op.name = "NextItemId"
    /\ op.returned
    /\ hist.run = <<op.val>>
    /\ op.val > hist.created[1]

====
